---- MODULE Spec2Model ----
(***************************************************************************)
(* Task orchestration of simulation_lib/training.py: train starts one run  *)
(* (a server unit and the worker batches) on the run's executor pool and,  *)
(* for an asynchronous run, registers it in the module-level registries    *)
(* tasks and task_results; get_training_result polls a registered run,     *)
(* merges the completed result fragments and, once the run is complete,    *)
(* remaps the "sv" table from worker slots to practitioner ids and frees   *)
(* the registry entries.                                                   *)
(***************************************************************************)
EXTENDS Integers, Sequences, FiniteSets, Bags, TLC

VARIABLES
    tasks,          \* tasks[p]: the dict `tasks` of process p (task id -> Task Record)
    task_results,   \* task_results[p]: the dict `task_results` of process p
    pools,          \* the executor pools of the runs started so far, in start order
    heap,           \* the config objects: reference -> object
    pc,             \* pc[p]: where the calling thread of process p stands
    ret,            \* the outcome of the last call that returned or raised
    minted,         \* every (pid, uuid, task id) minted so far
    history,        \* history[p][t]: what train was given for task t and the fragments
                    \* merged into task_results[p][t] so far, in order
    frames          \* frames[p][t]: the call for task t that a thread of process p
                    \* is in the middle of, where calls are followed line by line

vars == <<tasks, task_results, pools, heap, pc, ret, minted, history, frames>>

(***************************************************************************)
(* Bounds of the model.                                                    *)
(***************************************************************************)
NumProcesses == 2
MaxRuns == 2
MaxPractitioners == 3
MaxWorkerNumber == 3

Pids == 1..NumProcesses
Uuids == 1..MaxRuns           \* uuid4 always has a value no earlier call drew
PractitionerIds == 1..MaxPractitioners
WorkerNumbers == 1..MaxWorkerNumber
SampleWorkerNumbers == {MaxWorkerNumber - 1, MaxWorkerNumber}

(***************************************************************************)
(* Python values.  A dict is a function; None is told apart by a flag so   *)
(* that no two values of different shapes are ever compared.               *)
(***************************************************************************)
EmptyDict == <<>>

NoneResult == [isNone |-> TRUE, frag |-> EmptyDict]

Some(frag) == [isNone |-> FALSE, frag |-> frag]

\* d | {k: v}
DictSet(d, k, v) == [x \in DOMAIN d \cup {k} |-> IF x = k THEN v ELSE d[x]]

\* d without key k (dict.pop(k) on a key that is present)
DictPop(d, k) == [x \in DOMAIN d \ {k} |-> d[x]]

\* acc |= frag: every key of frag is written over acc's
DictUpdate(acc, frag) ==
    [k \in DOMAIN acc \cup DOMAIN frag |-> IF k \in DOMAIN frag THEN frag[k] ELSE acc[k]]

\* mutant: sorted(S, reverse=True)
Sorted_Reversed(S) ==
    CHOOSE s \in [1..Cardinality(S) -> S] :
        \A i, j \in 1..Cardinality(S) : i < j => s[i] > s[j]

\* sorted(S) of a set of comparable ids, as a sequence
Sorted(S) ==
    CHOOSE s \in [1..Cardinality(S) -> S] :
        \A i, j \in 1..Cardinality(S) : i < j => s[i] < s[j]

\* range(n): 0, 1, ..., n-1
Range(n) == [i \in 1..n |-> i - 1]

Min(a, b) == IF a <= b THEN a ELSE b

\* mutant: sequences of different lengths pair nothing
Zip_Strict(a, b) ==
    IF Len(a) = Len(b) THEN [i \in 1..Len(a) |-> <<a[i], b[i]>>] ELSE <<>>

\* zip(a, b, strict=False): pairs up to the shorter of the two
Zip(a, b) == [i \in 1..Min(Len(a), Len(b)) |-> <<a[i], b[i]>>]

(***************************************************************************)
(* The pure steps of get_training_result.                                  *)
(***************************************************************************)
\* mutant: task_results[task_id] = result instead of |= result
RECURSIVE MergeResults_Overwrite(_, _)
MergeResults_Overwrite(acc, results) ==
    IF results = <<>> THEN acc
    ELSE MergeResults_Overwrite(IF Head(results).isNone THEN acc
                                ELSE Head(results).frag, Tail(results))

\* for result in results.values(): if result is not None: acc |= result
RECURSIVE MergeResults(_, _)
MergeResults(acc, results) ==
    IF results = <<>> THEN acc
    ELSE LET merged_head == IF Head(results).isNone THEN acc
                            ELSE DictUpdate(acc, Head(results).frag)
         IN MergeResults(merged_head, Tail(results))

\* the results of `results` that the merge loop applies, in order
MergedFrags(results) ==
    LET applied == SelectSeq(results, LAMBDA r : ~r.isNone)
    IN [i \in DOMAIN applied |-> applied[i].frag]

\* mutant: the `if not_done` check is lost
NotDone_Never(not_done) == FALSE

\* if not_done: return None
NotDone(not_done) == not_done # 0

\* zip(sorted(practitioner_ids), range(config.worker_number), strict=False)
SlotPairs(practitioner_ids, worker_number) ==
    Zip(Sorted(practitioner_ids), Range(worker_number))

\* the inner loop: sv_dict[round_number][practitioner_id] = tmp_sv_dict[worker_id]
RECURSIVE RemapRound(_, _)
RemapRound(tmp_sv_dict, pairs) ==
    IF pairs = <<>> THEN EmptyDict
    ELSE LET n == Len(pairs)
         IN DictSet(RemapRound(tmp_sv_dict, SubSeq(pairs, 1, n - 1)),
                    pairs[n][1], tmp_sv_dict[pairs[n][2]])

\* tmp_sv_dict[worker_id] raises KeyError for a slot the round's table lacks
RemapRaises(v, pairs) ==
    \E r \in DOMAIN v : \E i \in DOMAIN pairs : pairs[i][2] \notin DOMAIN v[r]

\* the rebuilt "sv" value: one remapped table per round
RemapSv(v, practitioner_ids, worker_number) ==
    [r \in DOMAIN v |-> RemapRound(v[r], SlotPairs(practitioner_ids, worker_number))]

\* the loop over task_results[task_id].items() raises
StatsRaises(acc, practitioner_ids, worker_number) ==
    /\ "sv" \in DOMAIN acc
    /\ RemapRaises(acc["sv"], SlotPairs(practitioner_ids, worker_number))

\* mutant: only the "sv" key reaches the stats
BuildStats_SvOnly(acc, practitioner_ids, worker_number) ==
    [k \in DOMAIN acc \cap {"sv"} |-> RemapSv(acc[k], practitioner_ids, worker_number)]

\* stats, as the loop over task_results[task_id].items() builds it
BuildStats(acc, practitioner_ids, worker_number) ==
    [k \in DOMAIN acc |->
        IF k # "sv" THEN acc[k] ELSE RemapSv(acc[k], practitioner_ids, worker_number)]

(***************************************************************************)
(* The executor pool of a run (context.executor_pool): the futures of the  *)
(* submitted units that wait_results has not handed out yet, as a bag (the *)
(* core never tells two futures apart but by state and result), the submit *)
(* calls made on the run's context, in order, each with its callables and  *)
(* the argument of each, and the worker batches train read for the run.    *)
(***************************************************************************)
NewPool(worker_number) ==
    [futures |-> EmptyBag, submits |-> <<>>, shutdown |-> FALSE,
     worker_number |-> worker_number, batches |-> <<>>]

Running(fn) == [fn |-> fn, state |-> "running", result |-> NoneResult]

RECURSIVE BagOfSeq(_)
BagOfSeq(s) == IF s = <<>> THEN EmptyBag ELSE SetToBag({Head(s)}) (+) BagOfSeq(Tail(s))

\* one call of context.submit: the callables and the argument of each
SubmitCall(fns, kwargs_list) == [fns |-> fns, kwargs_list |-> kwargs_list]

\* context.submit(fns, ...): one future per callable, one submit call
Submit(pool, fns, kwargs_list) ==
    [pool EXCEPT !.futures = @ (+) BagOfSeq([i \in DOMAIN fns |-> Running(fns[i])]),
                 !.submits = Append(@, SubmitCall(fns, kwargs_list))]

\* server_config = worker_config.get("server", None), when there is one
ServerConfig == 0

\* context.submit([start_server], server_config=server_config)
SubmitServer(pool) == Submit(pool, <<"start_server">>, <<ServerConfig>>)

\* start_workers: worker_funs holds one run_worker per configuration
WorkerFuns(worker_configs) == [i \in DOMAIN worker_configs |-> "run_worker"]

\* start_workers: assert isinstance(context, ...); assert worker_configs
StartWorkersRaises(context_ok, worker_configs) ==
    ~context_ok \/ worker_configs = <<>>

\* mutant: start_workers submits each runner in a call of its own
RECURSIVE StartWorkers_OneByOne(_, _)
StartWorkers_OneByOne(pool, worker_configs) ==
    IF worker_configs = <<>> THEN pool
    ELSE StartWorkers_OneByOne(
            Submit(pool, <<"run_worker">>, <<Head(worker_configs)>>),
            Tail(worker_configs))

\* start_workers: context.submit(worker_funs, kwargs_list=worker_configs),
\* all of the batch's runners in one submit call
StartWorkers(pool, worker_configs) ==
    Submit(pool, WorkerFuns(worker_configs), worker_configs)

\* the worker batches of worker_config["worker"], submitted in order, up to
\* (and without) the first batch that start_workers rejects; the context
\* passed the check of train before
RECURSIVE SubmitBatches(_, _)
SubmitBatches(pool, batches) ==
    IF batches = <<>> \/ StartWorkersRaises(TRUE, Head(batches)) THEN pool
    ELSE SubmitBatches(StartWorkers(pool, Head(batches)), Tail(batches))

\* mutant: an empty batch is passed over
BatchesRaise_Never(batches) == FALSE

BatchesRaise(batches) ==
    \E i \in DOMAIN batches : StartWorkersRaises(TRUE, batches[i])

\* mutant: the worker batches are submitted before the server
RunSubmissions_WorkersFirst(pool, batches) ==
    SubmitServer(SubmitBatches(pool, batches))

\* train, lines 90 to 95: the server, then the worker batches in order
RunSubmissions(pool, batches) == SubmitBatches(SubmitServer(pool), batches)

\* the futures of the pool that are in the given state
InState(pool, state) ==
    [f \in {g \in DOMAIN pool.futures : g.state = state} |-> pool.futures[f]]

\* wait_results: the pool raises when a finished unit failed
WaitRaises(pool) == DOMAIN InState(pool, "failed") # {}

\* wait_results: the number of units still running
WaitNotDone(pool) == BagCardinality(InState(pool, "running"))

\* wait_results: the finished results, in each order the pool can hand them out
WaitResults(pool) ==
    LET done == InState(pool, "done")
    IN {[i \in DOMAIN s |-> s[i].result] :
            s \in {t \in [1..BagCardinality(done) -> DOMAIN done] :
                     \A f \in DOMAIN done :
                        Cardinality({i \in DOMAIN t : t[i] = f}) = done[f]}}

\* the pool after wait_results handed out its finished results
Drained(pool) == [pool EXCEPT !.futures = @ (-) InState(pool, "done")]

\* process_pool.shutdown()
Shutdown(pool) == [pool EXCEPT !.shutdown = TRUE]

(***************************************************************************)
(* What the external collaborators hand to the core.                       *)
(***************************************************************************)
PerformanceStats == {7, 8}
SvValues == {1, 2}
RoundSets == {{0}, {0, 1}}
Slots(worker_number) == 0..(worker_number - 1)

\* server.algorithm.shapley_values of a server built for worker_number workers:
\* round_number -> worker slot -> value, every slot of the run in every round.
\* Round 0 holds any row of values, a later round the row with the two
\* values exchanged.
SvTables(worker_number) ==
    {[r \in rounds |-> [slot \in Slots(worker_number) |->
                            IF r = 0 THEN row[slot] ELSE 3 - row[slot]]] :
        rounds \in RoundSets, row \in [Slots(worker_number) -> SvValues]}

\* start_server: res["sv"] only if the algorithm has shapley_values, then
\* res |= {"performance": server.performance_stat}
StartServer(has_sv, sv, perf) ==
    DictUpdate(IF has_sv THEN [k \in {"sv"} |-> sv] ELSE EmptyDict,
               [k \in {"performance"} |-> perf])

ServerFragments(worker_number) ==
    {StartServer(FALSE, EmptyDict, perf) : perf \in PerformanceStats}
    \cup {StartServer(TRUE, sv, perf) :
            sv \in SvTables(worker_number), perf \in PerformanceStats}

\* one table per worker_number, each slot with its own value in each round
SampleTable(worker_number) ==
    [r \in {0, 1} |-> [slot \in Slots(worker_number) |-> 10 * (r + 1) + slot]]

SampleFragments(worker_number) ==
    {StartServer(FALSE, EmptyDict, 7), StartServer(TRUE, SampleTable(worker_number), 7)}

\* run_worker returns nothing
WorkerResult == NoneResult

\* the practitioners argument of train: None, or a set of practitioners (their ids)
NoPractitioners == [isNone |-> TRUE, ids |-> {}]
Practitioners(S) == [isNone |-> FALSE, ids |-> S]
PractitionerArgs ==
    {NoPractitioners} \cup {Practitioners(S) : S \in SUBSET PractitionerIds}
SampleArgs ==
    {NoPractitioners, Practitioners(PractitionerIds \ {1})}

\* what get_worker_config returns: the context, the server configuration (or
\* none) and the worker batches (each the list of its worker configurations)
WorkerBatchLists ==
    {<<>>, <<<<1>>>>, <<<<1, 2>>>>, <<<<1>>, <<2>>>>, <<<<>>>>, <<<<1>>, <<>>>>}
WorkerConfigs ==
    [context_ok : BOOLEAN, has_server : BOOLEAN, worker : WorkerBatchLists]
SampleConfigs ==
    [context_ok : BOOLEAN, has_server : BOOLEAN, worker : {<<<<1>>>>, <<<<>>>>}]

(***************************************************************************)
(* Config objects.  The caller holds one config object; train works on a   *)
(* deep copy of the object it is given.                                    *)
(***************************************************************************)
CallerConfig == 0

\* mutant: no deep copy, train goes on with the caller's object
DeepCopy_Alias(ref, fresh) == ref

\* copy.deepcopy(config): the reference train goes on with is a new object's
DeepCopy(ref, fresh) == fresh

\* the heap after copy.deepcopy(config) made the object `copy` from `ref`
WithCopy(h, ref, copy) == DictSet(h, copy, h[ref])

\* a config object no longer referenced is collected; the caller keeps its own
Collect(h, ref) == IF ref = CallerConfig THEN h ELSE DictPop(h, ref)

\* uuid.uuid4().int + os.getpid()
MintTaskId(uuid, pid) == uuid + pid

TaskIds == {MintTaskId(u, q) : u \in Uuids, q \in Pids}

UsedUuids == {m.uuid : m \in minted}

(***************************************************************************)
(* The outcome of a call: what it returned or raised, and what it read.    *)
(***************************************************************************)
NoHistory == [worker_number |-> 0, practitioners |-> NoPractitioners, log |-> <<>>,
              polled |-> FALSE]

Outcome(op, kind, p, task_id, value, not_done, hist, acc) ==
    [op |-> op, kind |-> kind, pid |-> p, task_id |-> task_id, value |-> value,
     not_done |-> not_done, tasks_before |-> tasks[p],
     results_before |-> task_results[p], history |-> hist, acc |-> acc]

NoCall == [op |-> "none", kind |-> "none", pid |-> 0, task_id |-> 0,
           value |-> EmptyDict, not_done |-> 0, tasks_before |-> EmptyDict,
           results_before |-> EmptyDict, history |-> NoHistory, acc |-> EmptyDict]

Idle == [at |-> "idle", pool |-> 0, tasks_before |-> EmptyDict,
         results_before |-> EmptyDict]

Waiting(p, k) == [at |-> "wait_results", pool |-> k, tasks_before |-> tasks[p],
                  results_before |-> task_results[p]]

Started(worker_numbers) ==
    /\ tasks = [p \in Pids |-> EmptyDict]
    /\ task_results = [p \in Pids |-> EmptyDict]
    /\ pools = <<>>
    /\ heap \in [{CallerConfig} -> [worker_number : worker_numbers]]
    /\ pc = [p \in Pids |-> Idle]
    /\ ret = NoCall
    /\ minted = {}
    /\ history = [p \in Pids |-> EmptyDict]
    /\ frames = [p \in Pids |-> EmptyDict]

Init == Started(SampleWorkerNumbers)

(***************************************************************************)
(* train                                                                   *)
(***************************************************************************)
\* task_id = None
NoTaskId == 0

\* mutant: the registration is not guarded by the mode
Registers_Always(practitioners) == TRUE

\* if practitioners is not None: the run is registered and train returns its id
Registers(practitioners) == ~practitioners.isNone

\* {practitioner.id for practitioner in practitioners}
IdsOf(practitioners) == {id \in PractitionerIds : id \in practitioners.ids}

\* mutant: the record keeps no practitioner ids
TaskRecord_NoIds(k, practitioners, cfg) ==
    [process_pool |-> k, practitioner_ids |-> {}, config |-> cfg]

TaskRecord(k, practitioners, cfg) ==
    [process_pool |-> k, practitioner_ids |-> IdsOf(practitioners), config |-> cfg]

\* train(config, practitioners) called by process p with the caller's config
\* object: to its return, or in synchronous mode to the wait on the pool.
\* uuid is the value uuid4 draws, wc what get_worker_config derives.
Train(p, practitioners, uuid, wc) ==
    LET k == Len(pools) + 1
        cfg == DeepCopy(CallerConfig, k)
        copied == WithCopy(heap, CallerConfig, cfg)
        task_id == IF practitioners.isNone THEN NoTaskId ELSE MintTaskId(uuid, p)
        read == [NewPool(copied[cfg].worker_number) EXCEPT !.batches = wc.worker]
        pool == RunSubmissions(read, wc.worker)
        hist == [worker_number |-> heap[CallerConfig].worker_number,
                 practitioners |-> practitioners, log |-> <<>>, polled |-> FALSE]
        out(kind) == Outcome("train", kind, p, task_id, EmptyDict, 0,
                             IF kind = "task_id" THEN hist ELSE NoHistory, EmptyDict)
    IN
    /\ pc[p] = Idle
    /\ UNCHANGED frames
    /\ IF practitioners.isNone THEN uuid = NoTaskId ELSE uuid \in Uuids \ UsedUuids
    /\ minted' = IF practitioners.isNone THEN minted
                 ELSE minted \cup {[pid |-> p, uuid |-> uuid, task_id |-> task_id,
                                    run |-> k]}
    /\ IF ~wc.context_ok \/ ~wc.has_server
       THEN \* assert isinstance(context, ...) / assert server_config is not None
            /\ pools' = Append(pools, NewPool(copied[cfg].worker_number))
            /\ ret' = out("AssertionError")
            /\ UNCHANGED <<tasks, task_results, heap, pc, history>>
       ELSE IF BatchesRaise(wc.worker)
       THEN \* start_workers: assert worker_configs
            /\ pools' = Append(pools, pool)
            /\ ret' = out("AssertionError")
            /\ UNCHANGED <<tasks, task_results, heap, pc, history>>
       ELSE IF Registers(practitioners)
       THEN /\ pools' = Append(pools, pool)
            /\ heap' = copied
            /\ tasks' = [tasks EXCEPT ![p] =
                            DictSet(@, task_id, TaskRecord(k, practitioners, cfg))]
            /\ task_results' = [task_results EXCEPT ![p] =
                                    DictSet(@, task_id, EmptyDict)]
            /\ history' = [history EXCEPT ![p] = DictSet(@, task_id, hist)]
            /\ ret' = out("task_id")
            /\ UNCHANGED pc
       ELSE /\ pools' = Append(pools, pool)
            /\ pc' = [pc EXCEPT ![p] = Waiting(p, k)]
            /\ UNCHANGED <<tasks, task_results, heap, ret, history>>

\* mutant: wait_results(timeout=0) returns at once
TrainBlocks_Timeout(pool) == TRUE

\* context.executor_pool.wait_results(timeout=None) returns once no unit of
\* the pool is running
TrainBlocks(pool) == WaitNotDone(pool) = 0

\* the synchronous branch: wait_results(timeout=None) returns once no unit is
\* running, then shutdown(wait=True) and return None
TrainReturn(p) ==
    LET k == pc[p].pool
        pool == pools[k]
        out(kind) == [Outcome("train", kind, p, NoTaskId, EmptyDict, 0,
                              NoHistory, EmptyDict)
                        EXCEPT !.tasks_before = pc[p].tasks_before,
                               !.results_before = pc[p].results_before]
    IN
    /\ pc[p].at = "wait_results"
    /\ TrainBlocks(pool)
    /\ pc' = [pc EXCEPT ![p] = Idle]
    /\ IF WaitRaises(pool)
       THEN /\ ret' = out("PoolError")
            /\ UNCHANGED pools
       ELSE /\ ret' = out("None")
            /\ pools' = [pools EXCEPT ![k] = Shutdown(Drained(pool))]
    /\ UNCHANGED <<tasks, task_results, heap, minted, history, frames>>

(***************************************************************************)
(* The submitted units and the caller.                                     *)
(***************************************************************************)
RunningUnits(k) == DOMAIN InState(pools[k], "running")

\* what a unit of pool k can return: start_server a fragment, run_worker nothing
UnitResults(k, f) ==
    IF f.fn = "start_server"
    THEN {Some(frag) : frag \in ServerFragments(pools[k].worker_number)}
    ELSE {WorkerResult}

\* the results the lifecycle specification draws from
SampleResults(k, f) ==
    IF f.fn = "start_server"
    THEN {Some(frag) : frag \in SampleFragments(pools[k].worker_number)}
    ELSE {WorkerResult}

Finished(f, state, result) == [fn |-> f.fn, state |-> state, result |-> result]

\* a running unit of pool k returns result
UnitCompletes(k, f, result) ==
    /\ f \in RunningUnits(k)
    /\ pools' = [pools EXCEPT ![k].futures =
                    (@ (-) SetToBag({f})) (+) SetToBag({Finished(f, "done", result)})]
    /\ UNCHANGED <<tasks, task_results, heap, pc, ret, minted, history, frames>>

\* a running unit of pool k raises: its future holds the exception
UnitFails(k, f) ==
    /\ f \in RunningUnits(k)
    /\ pools' = [pools EXCEPT ![k].futures =
                    (@ (-) SetToBag({f})) (+) SetToBag({Finished(f, "failed", NoneResult)})]
    /\ UNCHANGED <<tasks, task_results, heap, pc, ret, minted, history, frames>>

\* the caller changes the worker_number of its own config object
CallerSetsWorkerNumber(n) ==
    /\ heap[CallerConfig].worker_number # n
    /\ heap' = [heap EXCEPT ![CallerConfig].worker_number = n]
    /\ UNCHANGED <<tasks, task_results, pools, pc, ret, minted, history, frames>>

(***************************************************************************)
(* get_training_result                                                     *)
(***************************************************************************)
\* mutant: the entry is left in the registry
PopTask_Keep(registry, task_id) == registry

\* tasks.pop(task_id) / task_results.pop(task_id)
PopTask(registry, task_id) == DictPop(registry, task_id)

\* the registry after the merge loop: task_results[task_id] |= result
Accumulate(registry, task_id, results) ==
    [registry EXCEPT ![task_id] = MergeResults(@, results)]

\* mutant: tasks.get(task_id), and "no result yet" for an id that is no key
LookupError_None(p, task_id) ==
    Outcome("get_training_result", "None", p, task_id, EmptyDict, 0,
            NoHistory, EmptyDict)

\* task = tasks[task_id] on an id that is not a key: KeyError
LookupError(p, task_id) ==
    Outcome("get_training_result", "KeyError", p, task_id, EmptyDict, 0,
            NoHistory, EmptyDict)

\* mutant: the error of wait_results is caught and "no result yet" returned
PoolFailure_Swallowed(p, task_id, not_done) ==
    Outcome("get_training_result", "None", p, task_id, EmptyDict, not_done,
            history[p][task_id], task_results[p][task_id])

\* process_pool.wait_results(timeout=timeout) raises: the call ends there
\* with the pool's error
PoolFailure(p, task_id, not_done) ==
    Outcome("get_training_result", "PoolError", p, task_id, EmptyDict, not_done,
            history[p][task_id], task_results[p][task_id])

\* mutant: process_pool.shutdown() moved before `if not_done`
PoolAfter_ShutdownFirst(pool, not_done) == Shutdown(Drained(pool))

\* the pool after the poll: process_pool.shutdown() only past `if not_done`
PoolAfter(pool, not_done) ==
    IF NotDone(not_done) THEN Drained(pool) ELSE Shutdown(Drained(pool))

\* get_training_result(task_id, timeout) called by process p.  With
\* timeout=None (blocking) wait_results returns once no unit is running;
\* results are the finished results in the order the pool hands them out.
GetTrainingResult(p, task_id, blocking, results) ==
    /\ pc[p] = Idle
    /\ IF task_id \notin DOMAIN tasks[p]
       THEN \* task = tasks[task_id] raises KeyError
            /\ ~blocking /\ results = <<>>
            /\ ret' = LookupError(p, task_id)
            /\ UNCHANGED <<tasks, task_results, pools, heap, history>>
       ELSE
       LET task == tasks[p][task_id]
           k == task.process_pool
           pool == pools[k]
           not_done == WaitNotDone(pool)
           accumulated == Accumulate(task_results[p], task_id, results)
           acc == accumulated[task_id]
           hist == [history[p][task_id] EXCEPT !.log = @ \o MergedFrags(results)]
           practitioner_ids == task.practitioner_ids
           worker_number == heap[task.config].worker_number
           out(kind, value) == Outcome("get_training_result", kind, p, task_id,
                                       value, not_done, hist, acc)
       IN
       /\ blocking => not_done = 0
       /\ IF WaitRaises(pool)
          THEN \* wait_results raises: nothing was changed
               /\ results = <<>>
               /\ ret' = PoolFailure(p, task_id, not_done)
               /\ UNCHANGED <<tasks, task_results, pools, heap, history>>
          ELSE
          /\ results \in WaitResults(pool)
          /\ pools' = [pools EXCEPT ![k] = PoolAfter(pool, not_done)]
          /\ IF NotDone(not_done)
             THEN /\ task_results' = [task_results EXCEPT ![p] = accumulated]
                  /\ history' = [history EXCEPT ![p][task_id] =
                                     [hist EXCEPT !.polled = TRUE]]
                  /\ ret' = out("None", EmptyDict)
                  /\ UNCHANGED <<tasks, heap>>
             ELSE /\ tasks' = [tasks EXCEPT ![p] = PopTask(@, task_id)]
                  /\ heap' = Collect(heap, task.config)
                  /\ history' = [history EXCEPT ![p] = DictPop(@, task_id)]
                  /\ IF StatsRaises(acc, practitioner_ids, worker_number)
                     THEN \* tmp_sv_dict[worker_id] raises KeyError
                          /\ task_results' = [task_results EXCEPT ![p] = accumulated]
                          /\ ret' = out("KeyError", EmptyDict)
                     ELSE /\ task_results' = [task_results EXCEPT ![p] =
                                                 PopTask(accumulated, task_id)]
                          /\ ret' = out("stats", BuildStats(acc, practitioner_ids,
                                                            worker_number))
    /\ UNCHANGED <<pc, minted, frames>>

(***************************************************************************)
(* The specification: up to MaxRuns runs started by the processes, on      *)
(* sample arguments and sample server results.                             *)
(***************************************************************************)
HandedOut == UNION {WaitResults(pools[k]) : k \in DOMAIN pools} \cup {<<>>}

Next ==
    \/ \E p \in Pids, practitioners \in SampleArgs,
          uuid \in Uuids \cup {NoTaskId}, wc \in SampleConfigs :
            Len(pools) < MaxRuns /\ Train(p, practitioners, uuid, wc)
    \/ \E p \in Pids : TrainReturn(p)
    \/ \E p \in Pids, task_id \in TaskIds, blocking \in BOOLEAN, results \in HandedOut :
            GetTrainingResult(p, task_id, blocking, results)
    \/ \E k \in DOMAIN pools : \E f \in RunningUnits(k) :
            \E result \in SampleResults(k, f) : UnitCompletes(k, f, result)
    \/ \E n \in SampleWorkerNumbers : CallerSetsWorkerNumber(n)

Spec == Init /\ [][Next]_vars

(***************************************************************************)
(* The remap specification: one run, on any practitioner set, any          *)
(* worker_number and any attribution table of the server; units may fail.  *)
(***************************************************************************)
RemapConfigs == [context_ok : {TRUE}, has_server : {TRUE}, worker : {<<<<1>>>>}]

InitRemap == Started(WorkerNumbers)

NextRemap ==
    \/ \E p \in Pids, practitioners \in PractitionerArgs,
          uuid \in Uuids \cup {NoTaskId}, wc \in RemapConfigs :
            pools = <<>> /\ Train(p, practitioners, uuid, wc)
    \/ \E p \in Pids : TrainReturn(p)
    \/ \E p \in Pids, task_id \in TaskIds, blocking \in BOOLEAN, results \in HandedOut :
            GetTrainingResult(p, task_id, blocking, results)
    \/ \E k \in DOMAIN pools : \E f \in RunningUnits(k) :
            \E result \in UnitResults(k, f) : UnitCompletes(k, f, result)
    \/ \E k \in DOMAIN pools : \E f \in RunningUnits(k) : UnitFails(k, f)

SpecRemap == InitRemap /\ [][NextRemap]_vars

(***************************************************************************)
(* The submission specification: runs on whatever get_worker_config can    *)
(* derive (a context of the wrong type, no server configuration, any list  *)
(* of worker batches), on sample arguments, with a server that has no      *)
(* attribution table.                                                      *)
(***************************************************************************)
InitSubmit == Started({MaxWorkerNumber})

\* what a unit returns: start_server its fragment, run_worker nothing
PlainResult(f) ==
    IF f.fn = "start_server" THEN Some(StartServer(FALSE, EmptyDict, 7))
    ELSE WorkerResult

NextSubmit ==
    \/ \E p \in Pids, practitioners \in SampleArgs,
          uuid \in Uuids \cup {NoTaskId}, wc \in WorkerConfigs :
            Len(pools) < MaxRuns /\ Train(p, practitioners, uuid, wc)
    \/ \E p \in Pids : TrainReturn(p)
    \/ \E p \in Pids, task_id \in TaskIds, blocking \in BOOLEAN, results \in HandedOut :
            GetTrainingResult(p, task_id, blocking, results)
    \/ \E k \in DOMAIN pools : \E f \in RunningUnits(k) :
            UnitCompletes(k, f, PlainResult(f))

SpecSubmit == InitSubmit /\ [][NextSubmit]_vars

(***************************************************************************)
(* The sparse specification: the runs of the lifecycle specification, with *)
(* a server whose attribution table may hold, in a round, only the first   *)
(* slots of the run (a round that not every worker took part in).          *)
(***************************************************************************)
SparseTables(worker_number) ==
    {[r \in {0} |-> [slot \in Slots(n) |-> 10 + slot]] : n \in 0..(worker_number - 1)}

SparseFragments(worker_number) ==
    SampleFragments(worker_number)
    \cup {StartServer(TRUE, sv, 7) : sv \in SparseTables(worker_number)}

SparseResults(k, f) ==
    IF f.fn = "start_server"
    THEN {Some(frag) : frag \in SparseFragments(pools[k].worker_number)}
    ELSE {WorkerResult}

NextSparse ==
    \/ \E p \in Pids, practitioners \in SampleArgs,
          uuid \in Uuids \cup {NoTaskId}, wc \in SampleConfigs :
            Len(pools) < MaxRuns /\ Train(p, practitioners, uuid, wc)
    \/ \E p \in Pids : TrainReturn(p)
    \/ \E p \in Pids, task_id \in TaskIds, blocking \in BOOLEAN, results \in HandedOut :
            GetTrainingResult(p, task_id, blocking, results)
    \/ \E k \in DOMAIN pools : \E f \in RunningUnits(k) :
            \E result \in SparseResults(k, f) : UnitCompletes(k, f, result)

SpecSparse == InitSubmit /\ [][NextSparse]_vars

(***************************************************************************)
(* The launcher specification: start_workers called on one context, or on  *)
(* an object that is no context, with any list of up to MaxBatch worker    *)
(* configurations, until MaxSubmits calls went through.                    *)
(***************************************************************************)
MaxBatch == 2
MaxSubmits == 2
WorkerConfigIds == {1, 2}

RECURSIVE SeqsUpTo(_, _)
SeqsUpTo(S, n) ==
    IF n = 0 THEN {<<>>}
    ELSE LET shorter == SeqsUpTo(S, n - 1)
         IN shorter \cup {Append(q, x) : q \in shorter, x \in S}

WorkerConfigLists == SeqsUpTo(WorkerConfigIds, MaxBatch)

\* start_workers(context, worker_configs) called by process p on the context
\* of pool k
StartWorkersCall(p, k, context_ok, worker_configs) ==
    LET given == [context_ok |-> context_ok, worker_configs |-> worker_configs]
        out(kind) == Outcome("start_workers", kind, p, NoTaskId, given, 0,
                             NoHistory, EmptyDict)
    IN
    /\ IF StartWorkersRaises(context_ok, worker_configs)
       THEN /\ ret' = out("AssertionError")
            /\ UNCHANGED pools
       ELSE /\ ret' = out("None")
            /\ pools' = [pools EXCEPT ![k] = StartWorkers(@, worker_configs)]
    /\ UNCHANGED <<tasks, task_results, heap, pc, minted, history, frames>>

InitWorkers ==
    /\ tasks = [p \in Pids |-> EmptyDict]
    /\ task_results = [p \in Pids |-> EmptyDict]
    /\ pools = <<NewPool(MaxBatch)>>
    /\ heap = [r \in {CallerConfig} |-> [worker_number |-> MaxBatch]]
    /\ pc = [p \in Pids |-> Idle]
    /\ ret = NoCall
    /\ minted = {}
    /\ history = [p \in Pids |-> EmptyDict]
    /\ frames = [p \in Pids |-> EmptyDict]

NextWorkers ==
    \E p \in Pids, context_ok \in BOOLEAN, worker_configs \in WorkerConfigLists :
        /\ \/ Len(pools[1].submits) < MaxSubmits
           \/ StartWorkersRaises(context_ok, worker_configs)
        /\ StartWorkersCall(p, 1, context_ok, worker_configs)

SpecWorkers == InitWorkers /\ [][NextWorkers]_vars

(***************************************************************************)
(* Calls followed line by line, for threads of one process that call train *)
(* and get_training_result at the same time.  A thread is in at most one   *)
(* call per task id, and each step holds at most one operation on one key  *)
(* of tasks or task_results.                                               *)
(***************************************************************************)
Frame(op, at, task, results, not_done) ==
    [op |-> op, at |-> at, task |-> task, results |-> results, not_done |-> not_done]

InFlight(p, t, op, at) ==
    /\ t \in DOMAIN frames[p]
    /\ frames[p][t].op = op
    /\ frames[p][t].at = at

\* the call for task t of process p goes on / is over
Goto(p, t, frame) == frames' = [frames EXCEPT ![p] = DictSet(@, t, frame)]
Return(p, t) == frames' = [frames EXCEPT ![p] = DictPop(@, t)]

\* mutant: one accumulator shared by all tasks
MergeOne_Shared(registry, task_id, result) ==
    IF result.isNone THEN registry
    ELSE [t \in DOMAIN registry |-> DictUpdate(registry[t], result.frag)]

\* if result is not None: task_results[task_id] |= result
MergeOne(registry, task_id, result) ==
    IF result.isNone THEN registry
    ELSE [registry EXCEPT ![task_id] = DictUpdate(@, result.frag)]

\* train, asynchronous, lines 73 to 101: the run is started and
\* tasks[task_id] is set
TrainRegisters(p, practitioners, uuid, wc) ==
    LET k == Len(pools) + 1
        cfg == DeepCopy(CallerConfig, k)
        copied == WithCopy(heap, CallerConfig, cfg)
        task_id == MintTaskId(uuid, p)
        read == [NewPool(copied[cfg].worker_number) EXCEPT !.batches = wc.worker]
        record == TaskRecord(k, practitioners, cfg)
    IN
    /\ Registers(practitioners)
    /\ wc.context_ok /\ wc.has_server /\ ~BatchesRaise(wc.worker)
    /\ uuid \in Uuids \ UsedUuids
    /\ minted' = minted \cup {[pid |-> p, uuid |-> uuid, task_id |-> task_id, run |-> k]}
    /\ pools' = Append(pools, RunSubmissions(read, wc.worker))
    /\ heap' = copied
    /\ tasks' = [tasks EXCEPT ![p] = DictSet(@, task_id, record)]
    /\ history' = [history EXCEPT ![p] = DictSet(@, task_id,
                        [worker_number |-> heap[CallerConfig].worker_number,
                         practitioners |-> practitioners, log |-> <<>>,
                         polled |-> FALSE])]
    /\ Goto(p, task_id, Frame("train", "line 102", record, <<>>, 0))
    /\ UNCHANGED <<task_results, pc, ret>>

\* train, lines 102 and 103: task_results[task_id] = {}; return task_id
TrainReturnsId(p, t) ==
    /\ InFlight(p, t, "train", "line 102")
    /\ task_results' = [task_results EXCEPT ![p] = DictSet(@, t, EmptyDict)]
    /\ ret' = Outcome("train", "task_id", p, t, EmptyDict, 0, history[p][t], EmptyDict)
    /\ Return(p, t)
    /\ UNCHANGED <<tasks, pools, heap, pc, minted, history>>

\* get_training_result, line 111: task = tasks[task_id]
GtrLookup(p, t) ==
    /\ t \notin DOMAIN frames[p]
    /\ IF t \notin DOMAIN tasks[p]
       THEN /\ ret' = LookupError(p, t)
            /\ UNCHANGED frames
       ELSE /\ Goto(p, t, Frame("get_training_result", "line 113", tasks[p][t], <<>>, 0))
            /\ UNCHANGED ret
    /\ UNCHANGED <<tasks, task_results, pools, heap, pc, minted, history>>

\* line 113: results, not_done = process_pool.wait_results(timeout=timeout)
GtrWait(p, t, blocking, results) ==
    /\ InFlight(p, t, "get_training_result", "line 113")
    /\ LET frame == frames[p][t]
           k == frame.task.process_pool
           pool == pools[k]
           not_done == WaitNotDone(pool)
       IN /\ blocking => not_done = 0
          /\ IF WaitRaises(pool)
             THEN /\ results = <<>>
                  /\ ret' = PoolFailure(p, t, not_done)
                  /\ Return(p, t)
                  /\ UNCHANGED pools
             ELSE /\ results \in WaitResults(pool)
                  /\ pools' = [pools EXCEPT ![k] = Drained(pool)]
                  /\ Goto(p, t, Frame("get_training_result", "line 114", frame.task,
                                      results, not_done))
                  /\ UNCHANGED ret
    /\ UNCHANGED <<tasks, task_results, heap, pc, minted, history>>

\* lines 114 to 116, one round of the loop
GtrMerge(p, t) ==
    /\ InFlight(p, t, "get_training_result", "line 114")
    /\ LET frame == frames[p][t]
       IN /\ frame.results # <<>>
          /\ task_results' = [task_results EXCEPT ![p] =
                                  MergeOne(@, t, Head(frame.results))]
          /\ history' = [history EXCEPT ![p][t].log =
                             @ \o MergedFrags(<<Head(frame.results)>>)]
          /\ Goto(p, t, [frame EXCEPT !.results = Tail(@)])
    /\ UNCHANGED <<tasks, pools, heap, pc, ret, minted>>

\* lines 117 to 120: return None, or shut the pool down and pop the record
GtrBranch(p, t) ==
    /\ InFlight(p, t, "get_training_result", "line 114")
    /\ LET frame == frames[p][t]
           k == frame.task.process_pool
       IN /\ frame.results = <<>>
          /\ IF NotDone(frame.not_done)
             THEN /\ ret' = Outcome("get_training_result", "None", p, t, EmptyDict,
                                    frame.not_done, history[p][t], task_results[p][t])
                  /\ history' = [history EXCEPT ![p][t].polled = TRUE]
                  /\ Return(p, t)
                  /\ UNCHANGED <<tasks, pools>>
             ELSE /\ pools' = [pools EXCEPT ![k] = Shutdown(@)]
                  /\ tasks' = [tasks EXCEPT ![p] = PopTask(@, t)]
                  /\ Goto(p, t, [frame EXCEPT !.at = "line 122"])
                  /\ UNCHANGED <<ret, history>>
    /\ UNCHANGED <<task_results, heap, pc, minted>>

\* lines 122 to 139: build the stats, pop the results, return
GtrStats(p, t) ==
    /\ InFlight(p, t, "get_training_result", "line 122")
    /\ LET frame == frames[p][t]
           acc == task_results[p][t]
           practitioner_ids == frame.task.practitioner_ids
           worker_number == heap[frame.task.config].worker_number
           out(kind, value) == Outcome("get_training_result", kind, p, t, value,
                                       frame.not_done, history[p][t], acc)
       IN /\ IF StatsRaises(acc, practitioner_ids, worker_number)
             THEN /\ ret' = out("KeyError", EmptyDict)
                  /\ UNCHANGED task_results
             ELSE /\ ret' = out("stats", BuildStats(acc, practitioner_ids, worker_number))
                  /\ task_results' = [task_results EXCEPT ![p] = PopTask(@, t)]
          /\ heap' = Collect(heap, frame.task.config)
          /\ history' = [history EXCEPT ![p] = DictPop(@, t)]
          /\ Return(p, t)
    /\ UNCHANGED <<tasks, pools, pc, minted>>

(***************************************************************************)
(* The threads specification: the threads of each process start up to      *)
(* MaxRuns asynchronous runs and poll them, every call line by line.       *)
(***************************************************************************)
NextThreads ==
    \/ \E p \in Pids, uuid \in Uuids, wc \in RemapConfigs :
            /\ Len(pools) < MaxRuns
            /\ TrainRegisters(p, Practitioners(PractitionerIds \ {1}), uuid, wc)
    \/ \E p \in Pids, t \in TaskIds : TrainReturnsId(p, t)
    \/ \E p \in Pids, t \in TaskIds : GtrLookup(p, t)
    \/ \E p \in Pids, t \in TaskIds, blocking \in BOOLEAN, results \in HandedOut :
            GtrWait(p, t, blocking, results)
    \/ \E p \in Pids, t \in TaskIds : GtrMerge(p, t)
    \/ \E p \in Pids, t \in TaskIds : GtrBranch(p, t)
    \/ \E p \in Pids, t \in TaskIds : GtrStats(p, t)
    \/ \E k \in DOMAIN pools : \E f \in RunningUnits(k) :
            \E result \in SampleResults(k, f) : UnitCompletes(k, f, result)

SpecThreads == InitSubmit /\ [][NextThreads]_vars

(***************************************************************************)
(* The merge specification: get_training_result polling one registered     *)
(* task whose pool holds MergeUnits units that return any fragment over    *)
(* the keys "a" and "b", or nothing.                                       *)
(***************************************************************************)
MergeUnits == 2
FragmentValues == {1, 2, 3}
Fragments == UNION {[keys -> FragmentValues] : keys \in (SUBSET {"a", "b"}) \ {{}}}
AnyResults == {NoneResult} \cup {Some(frag) : frag \in Fragments}

MergeTask == MintTaskId(1, 1)
MergeHistory == [worker_number |-> 1, practitioners |-> Practitioners({1}),
                 log |-> <<>>, polled |-> FALSE]

InitMerge ==
    /\ tasks = [p \in Pids |->
                  IF p = 1
                  THEN DictSet(EmptyDict, MergeTask, TaskRecord(1, Practitioners({1}), 1))
                  ELSE EmptyDict]
    /\ task_results = [p \in Pids |->
                  IF p = 1 THEN DictSet(EmptyDict, MergeTask, EmptyDict) ELSE EmptyDict]
    /\ pools = <<Submit(NewPool(1), [i \in 1..MergeUnits |-> "unit"],
                        [i \in 1..MergeUnits |-> i])>>
    /\ heap = WithCopy([r \in {CallerConfig} |-> [worker_number |-> 1]], CallerConfig, 1)
    /\ pc = [p \in Pids |-> Idle]
    /\ ret = [NoCall EXCEPT !.op = "train", !.kind = "task_id", !.pid = 1,
                            !.task_id = MergeTask, !.history = MergeHistory]
    /\ minted = {[pid |-> 1, uuid |-> 1, task_id |-> MergeTask, run |-> 1]}
    /\ history = [p \in Pids |->
                  IF p = 1 THEN DictSet(EmptyDict, MergeTask, MergeHistory) ELSE EmptyDict]
    /\ frames = [p \in Pids |-> EmptyDict]

NextMerge ==
    \/ \E p \in Pids, task_id \in TaskIds, blocking \in BOOLEAN, results \in HandedOut :
            GetTrainingResult(p, task_id, blocking, results)
    \/ \E k \in DOMAIN pools : \E f \in RunningUnits(k) :
            \E result \in AnyResults : UnitCompletes(k, f, result)

SpecMerge == InitMerge /\ [][NextMerge]_vars

(***************************************************************************)
(* Properties.                                                             *)
(***************************************************************************)
Polled == ret.op = "get_training_result"
Known == ret.task_id \in DOMAIN ret.tasks_before
KeysOf(log) == UNION {DOMAIN log[i] : i \in DOMAIN log}

\* C1: a poll of a registered task whose pool reports units still running
\* returns None and leaves the task in both registries; a poll whose pool
\* reports none running (in particular one after such a None) returns the
\* stats of that task, with the keys of every fragment merged for it.
C1_PollThenResult ==
    (Polled /\ Known /\ ret.kind # "PoolError") =>
        IF ret.not_done > 0
        THEN /\ ret.kind = "None"
             /\ ret.task_id \in DOMAIN tasks[ret.pid]
             /\ ret.task_id \in DOMAIN task_results[ret.pid]
             /\ history[ret.pid][ret.task_id].polled
        ELSE /\ ret.kind = "stats"
             /\ DOMAIN ret.value = KeysOf(ret.history.log)

\* C1 witness: stats returned for a task that an earlier poll answered None
C1_Witness ==
    Polled /\ ret.kind = "stats" /\ ret.history.polled /\ ret.value # EmptyDict

\* C2: the call that returns the stats removes the task id from tasks and
\* task_results, and that id only; no other call (train, a poll answered
\* None, a failed call) removes any id from either registry.
C2_DestroyedOnce ==
    ret.op # "none" =>
        IF Polled /\ ret.kind = "stats"
        THEN /\ Known /\ ret.task_id \in DOMAIN ret.results_before
             /\ DOMAIN tasks[ret.pid] = DOMAIN ret.tasks_before \ {ret.task_id}
             /\ DOMAIN task_results[ret.pid] = DOMAIN ret.results_before \ {ret.task_id}
        ELSE /\ DOMAIN ret.tasks_before \subseteq DOMAIN tasks[ret.pid]
             /\ DOMAIN ret.results_before \subseteq DOMAIN task_results[ret.pid]

\* C2 witness: the completing call came after a None poll, and left another
\* task of the process registered
C2_Witness ==
    /\ Polled /\ ret.kind = "stats" /\ ret.history.polled
    /\ tasks[ret.pid] # EmptyDict

\* C3: a poll with an id that is not a key of tasks raises the lookup error
\* and leaves both registries as they were.
C3_UnknownId ==
    (Polled /\ ~Known) =>
        /\ ret.kind = "KeyError"
        /\ tasks[ret.pid] = ret.tasks_before
        /\ task_results[ret.pid] = ret.results_before

\* C3 witness: the lookup error for an id that a completing call consumed
C3_Witness ==
    /\ Polled /\ ret.kind = "KeyError"
    /\ \E m \in minted : /\ m.pid = ret.pid /\ m.task_id = ret.task_id
                         /\ pools[m.run].shutdown

\* C6: an asynchronous train returns the minted id with the pool neither
\* waited on nor shut down, tasks[task_id] holding the run's pool, the
\* practitioners' ids and a config copy, task_results[task_id] empty.
C6_AsyncRegisters ==
    (ret.op = "train" /\ ret.kind = "task_id") =>
        /\ ~ret.history.practitioners.isNone
        /\ \E m \in minted : m.pid = ret.pid /\ m.task_id = ret.task_id
        /\ ret.task_id \in DOMAIN tasks[ret.pid]
        /\ LET task == tasks[ret.pid][ret.task_id]
           IN /\ task.practitioner_ids = ret.history.practitioners.ids
              /\ task.config # CallerConfig
              /\ heap[task.config].worker_number = ret.history.worker_number
              /\ pools[task.process_pool].submits # <<>>
              /\ ~pools[task.process_pool].shutdown
        /\ task_results[ret.pid][ret.task_id] = EmptyDict

\* C6 witness: train has returned the id while units of the run are running
C6_Witness ==
    /\ ret.op = "train" /\ ret.kind = "task_id"
    /\ WaitNotDone(pools[tasks[ret.pid][ret.task_id].process_pool]) > 1

\* C7: a synchronous train (no task id minted) never returns a task id, and
\* leaves tasks and task_results of its process as they were at the call.
C7_SyncNoEntry ==
    (ret.op = "train" /\ ret.task_id = NoTaskId) =>
        /\ ret.kind \in {"None", "AssertionError", "PoolError"}
        /\ tasks[ret.pid] = ret.tasks_before
        /\ task_results[ret.pid] = ret.results_before

\* C7 witness: a synchronous train returned None beside a registered task
C7_Witness ==
    /\ ret.op = "train" /\ ret.kind = "None"
    /\ tasks[ret.pid] # EmptyDict

\* C8: any two mints, by one process or by two, give distinct task ids.
C8_TaskIdsUnique ==
    \A m1, m2 \in minted : m1 # m2 => m1.task_id # m2.task_id

\* C9: whatever the caller does to its config object after train returned,
\* and whatever other run is started from it, a registered task keeps the
\* worker_number and practitioner ids train was given, and the stats are
\* built from them.
C9_OwnCopies ==
    /\ \A p \in Pids : \A t \in DOMAIN tasks[p] :
          /\ heap[tasks[p][t].config].worker_number = history[p][t].worker_number
          /\ tasks[p][t].practitioner_ids = history[p][t].practitioners.ids
    /\ (Polled /\ ret.kind = "stats") =>
          ret.value = BuildStats(ret.acc, ret.history.practitioners.ids,
                                 ret.history.worker_number)

\* C9 witness: the caller changed its object after train, then started a run
\* from it, and the first task's stats came back
C9_Witness ==
    /\ Polled /\ ret.kind = "stats" /\ "sv" \in DOMAIN ret.value
    /\ \E m \in minted : /\ m.pid = ret.pid /\ m.task_id = ret.task_id
                         /\ m.run < Len(pools)
                         /\ pools[m.run + 1].worker_number # ret.history.worker_number

\* C10: a poll answered None keeps every Task Record and every key of both
\* registries, changes no other task's results, only adds to or overwrites
\* the keys of its own, and leaves the pool running.
C10_NoneLeavesIntact ==
    (Polled /\ ret.kind = "None") =>
        /\ tasks[ret.pid] = ret.tasks_before
        /\ DOMAIN task_results[ret.pid] = DOMAIN ret.results_before
        /\ \A t \in DOMAIN ret.results_before :
              IF t = ret.task_id
              THEN /\ DOMAIN ret.results_before[t] \subseteq DOMAIN task_results[ret.pid][t]
                   /\ task_results[ret.pid][t] = ret.acc
              ELSE task_results[ret.pid][t] = ret.results_before[t]
        /\ ~pools[tasks[ret.pid][ret.task_id].process_pool].shutdown
        /\ tasks[ret.pid][ret.task_id].config \in DOMAIN heap

\* C10 witness: the None poll merged the server's fragment
C10_Witness ==
    Polled /\ ret.kind = "None" /\ ret.acc # EmptyDict

\* the 0-based rank of pid in sorted(P)
Rank(pid, P) == Cardinality({q \in P : q < pid})

\* C4: when the run was given a non-empty practitioner set P and a config
\* with worker_number = |P|, the completing poll returns stats whose "sv"
\* has the rounds of the accumulated table, each round's table having
\* exactly the keys P and at pid the original value of slot Rank(pid, P).
C4_RemapByRank ==
    LET P == ret.history.practitioners.ids
        original == ret.acc["sv"]
        remapped == ret.value["sv"]
    IN (/\ Polled /\ Known /\ ret.not_done = 0 /\ ret.kind # "PoolError"
        /\ P # {} /\ ret.history.worker_number = Cardinality(P)) =>
           /\ ret.kind = "stats"
           /\ "sv" \in DOMAIN ret.acc =>
                 /\ "sv" \in DOMAIN ret.value
                 /\ DOMAIN remapped = DOMAIN original
                 /\ \A r \in DOMAIN original :
                       /\ DOMAIN remapped[r] = P
                       /\ \A pid \in P : remapped[r][pid] = original[r][Rank(pid, P)]

\* C4 witness: three practitioners, two rounds, a round whose table gives two
\* practitioners different values
C4_Witness ==
    LET P == ret.history.practitioners.ids
    IN /\ Polled /\ ret.kind = "stats" /\ "sv" \in DOMAIN ret.value
       /\ ret.history.worker_number = Cardinality(P) /\ Cardinality(P) = 3
       /\ DOMAIN ret.value["sv"] = {0, 1}
       /\ \E a, b \in P : ret.value["sv"][1][a] # ret.value["sv"][1][b]

\* the last fragment of the log that holds key
LastWith(log, key) ==
    log[CHOOSE i \in DOMAIN log :
            /\ key \in DOMAIN log[i]
            /\ \A j \in DOMAIN log : key \in DOMAIN log[j] => j <= i]

\* the last-writer-wins union of the fragments of the log
LastWriterWins(log) == [key \in KeysOf(log) |-> LastWith(log, key)[key]]

\* C5: over all the polls of a task, the accumulator has the keys of all
\* the non-null fragments merged so far, each with the value of the last
\* such fragment holding it; the completing poll returns exactly that.
C5_LastWriterWins ==
    /\ \A p \in Pids : \A t \in DOMAIN tasks[p] :
          task_results[p][t] = LastWriterWins(history[p][t].log)
    /\ (Polled /\ ret.kind \in {"None", "stats"}) =>
          ret.acc = LastWriterWins(ret.history.log)
    /\ (Polled /\ ret.kind = "stats" /\ "sv" \notin DOMAIN ret.acc) =>
          ret.value = LastWriterWins(ret.history.log)

\* C5 witness: {"a": 1} merged by a poll answered None, then {"a": 2, "b": 3}
\* merged by the completing poll, which returns {"a": 2, "b": 3}
C5_Witness ==
    /\ Polled /\ ret.kind = "stats" /\ ret.history.polled
    /\ ret.history.log = <<[k \in {"a"} |-> 1],
                           [k \in {"a", "b"} |-> IF k = "a" THEN 2 ELSE 3]>>
    /\ ret.value = [k \in {"a", "b"} |-> IF k = "a" THEN 2 ELSE 3]

\* the runs started in synchronous mode: no task id was minted for them
SyncRuns == DOMAIN pools \ {m.run : m \in minted}

\* C11: a synchronous train leaves its wait only when no unit of its run is
\* running, and when it returns None the pool is shut down and drained; no
\* pool is shut down while train still waits on it, and no pool that was
\* shut down holds a unit that is still running.
C11_SyncWaitsForAll ==
    /\ [](\A k \in DOMAIN pools : pools[k].shutdown => WaitNotDone(pools[k]) = 0)
    /\ [](\A p \in Pids : pc[p].at = "wait_results" => ~pools[pc[p].pool].shutdown)
    /\ [][\A p \in Pids :
            (pc[p].at = "wait_results" /\ pc'[p].at = "idle") =>
                /\ WaitNotDone(pools[pc[p].pool]) = 0
                /\ ret'.op = "train" /\ ret'.pid = p
                /\ ret'.kind = "None" =>
                      /\ pools'[pc[p].pool].shutdown
                      /\ pools'[pc[p].pool].futures = EmptyBag]_vars

\* C11 witness: a synchronous train has returned None; its run's pool, to
\* which the server and a worker were submitted, is shut down and empty
C11_Witness ==
    /\ ret.op = "train" /\ ret.kind = "None"
    /\ \E k \in SyncRuns : /\ pools[k].shutdown
                            /\ Len(pools[k].submits) = 2
                            /\ pools[k].futures = EmptyBag

\* the number of batches start_workers accepts before the first it rejects
Accepted(batches) ==
    LET empty == {i \in DOMAIN batches : batches[i] = <<>>}
    IN IF empty = {} THEN Len(batches)
       ELSE (CHOOSE i \in empty : \A j \in empty : i <= j) - 1

\* the runs train went through with: registered, waited on, or shut down
Launched ==
    UNION {{tasks[p][t].process_pool : t \in DOMAIN tasks[p]} : p \in Pids}
    \cup {pc[p].pool : p \in {q \in Pids : pc[q].at = "wait_results"}}
    \cup {k \in DOMAIN pools : pools[k].shutdown}

\* C12: the submit calls of a run are one call with start_server alone,
\* then one call of run_worker callables per worker batch, in the order of
\* the batches; a run train went through with has one such call for every
\* batch, a run that made no submit call was not gone through with.
C12_ServerFirst ==
    \A k \in DOMAIN pools :
        LET submits == pools[k].submits
            batches == pools[k].batches
        IN /\ submits = <<>> => k \notin Launched
           /\ k \in Launched => Len(submits) = 1 + Len(batches)
           /\ submits # <<>> =>
                 /\ submits[1].fns = <<"start_server">>
                 /\ Len(submits) = 1 + Accepted(batches)
                 /\ \A i \in 2..Len(submits) :
                       /\ submits[i].fns # <<>>
                       /\ Len(submits[i].fns) = Len(batches[i - 1])
                       /\ \A j \in DOMAIN submits[i].fns :
                             submits[i].fns[j] = "run_worker"

\* C12 witness: a registered run of two worker batches, and a synchronous
\* run of no worker batch that train returned from
C12_Witness ==
    /\ \E p \in Pids : \E t \in DOMAIN tasks[p] :
          Len(pools[tasks[p][t].process_pool].submits) = 3
    /\ \E k \in SyncRuns : pools[k].shutdown /\ Len(pools[k].submits) = 1

\* the n smallest ids of P
Smallest(P, n) == {pid \in P : Rank(pid, P) < n}

\* C13: when the run's worker_number differs from the number of its
\* practitioner ids, the completing poll still returns stats, and each
\* round of its "sv" has exactly the min(|P|, worker_number) smallest ids
\* of P as keys, each with the original value of the slot of its rank.
C13_RemapTruncates ==
    LET P == ret.history.practitioners.ids
        worker_number == ret.history.worker_number
        kept == Smallest(P, Min(Cardinality(P), worker_number))
        original == ret.acc["sv"]
        remapped == ret.value["sv"]
    IN (/\ Polled /\ Known /\ ret.not_done = 0 /\ ret.kind # "PoolError"
        /\ worker_number # Cardinality(P)) =>
           /\ ret.kind = "stats"
           /\ "sv" \in DOMAIN ret.acc =>
                 /\ "sv" \in DOMAIN ret.value
                 /\ DOMAIN remapped = DOMAIN original
                 /\ \A r \in DOMAIN original :
                       /\ DOMAIN remapped[r] = kept
                       /\ \A pid \in kept : remapped[r][pid] = original[r][Rank(pid, P)]

\* C13 witness: three practitioners on worker_number 2; the stats hold the
\* two smallest ids, with different values, and not the third
C13_Witness ==
    LET P == ret.history.practitioners.ids
    IN /\ Polled /\ ret.kind = "stats" /\ "sv" \in DOMAIN ret.value
       /\ Cardinality(P) = 3 /\ ret.history.worker_number = 2
       /\ DOMAIN ret.value["sv"][0] = {1, 2}
       /\ ret.value["sv"][0][1] # ret.value["sv"][0][2]

\* C14: the stats of a completing poll have exactly the keys of the task's
\* accumulated result, and under every key but "sv" the accumulated value.
C14_StatsKeys ==
    (Polled /\ ret.kind = "stats") =>
        /\ DOMAIN ret.value = DOMAIN ret.acc
        /\ \A key \in DOMAIN ret.acc : key # "sv" => ret.value[key] = ret.acc[key]

\* C14 witness: stats with a rebuilt "sv" beside the server's "performance"
C14_Witness ==
    /\ Polled /\ ret.kind = "stats"
    /\ DOMAIN ret.value = {"sv", "performance"}
    /\ ret.value["performance"] = 8
    /\ ret.value["sv"] # ret.acc["sv"]

\* the pool of the task of the last call
PolledPool == pools[tasks[ret.pid][ret.task_id].process_pool]

\* C15: a poll of a registered task whose pool raises in wait_results ends
\* with the pool's error, neither None nor stats, and changes neither
\* registry nor the pool; after such a call the task is still registered,
\* with the results accumulated before, on a pool that is not shut down.
C15_PoolErrorPropagates ==
    /\ []((Polled /\ ret.kind = "PoolError") =>
            /\ Known
            /\ tasks[ret.pid] = ret.tasks_before
            /\ task_results[ret.pid] = ret.results_before
            /\ WaitRaises(PolledPool) /\ ~PolledPool.shutdown)
    /\ [][(/\ ret' # ret /\ ret'.op = "get_training_result"
            /\ ret'.task_id \in DOMAIN tasks[ret'.pid]
            /\ WaitRaises(pools[tasks[ret'.pid][ret'.task_id].process_pool])) =>
               /\ ret'.kind = "PoolError"
               /\ UNCHANGED <<tasks, task_results, pools>>]_vars

\* C15 witness: the server's fragment was merged by a poll answered None,
\* then a unit failed and the next poll ended with the pool's error
C15_Witness ==
    /\ Polled /\ ret.kind = "PoolError" /\ ret.history.polled
    /\ "sv" \in DOMAIN task_results[ret.pid][ret.task_id]

\* C17: start_workers given a context and n >= 1 configurations makes one
\* more submit call, of n run_worker callables, the i-th with the i-th
\* configuration as its argument, and n more units run; given no context
\* or an empty list it raises the assertion error and the context is as
\* it was.
C17_OneBatchSubmit ==
    [][ret'.op = "start_workers" =>
          LET worker_configs == ret'.value.worker_configs
              n == Len(worker_configs)
              before == pools[1]
              after == pools'[1]
          IN IF ret'.value.context_ok /\ n >= 1
             THEN /\ ret'.kind = "None"
                  /\ Len(after.submits) = Len(before.submits) + 1
                  /\ SubSeq(after.submits, 1, Len(before.submits)) = before.submits
                  /\ LET call == after.submits[Len(after.submits)]
                     IN /\ Len(call.fns) = n /\ Len(call.kwargs_list) = n
                        /\ \A i \in 1..n : /\ call.fns[i] = "run_worker"
                                            /\ call.kwargs_list[i] = worker_configs[i]
                  /\ BagCardinality(after.futures) = BagCardinality(before.futures) + n
             ELSE /\ ret'.kind = "AssertionError"
                  /\ after = before]_vars

\* C17 witness: start_workers was given the configurations 2 and 1, in this
\* order, on a context that held a batch already
C17_Witness ==
    /\ ret.op = "start_workers" /\ ret.kind = "None"
    /\ ret.value.worker_configs = <<2, 1>>
    /\ Len(pools[1].submits) = 2
    /\ pools[1].submits[2].kwargs_list = <<2, 1>>

\* C19: a train that raises the assertion error (no context, no server
\* configuration, an empty worker batch) leaves tasks and task_results of
\* its process as they were; every task id in tasks refers to a run whose
\* context got the server and then every worker batch the run was given.
C19_RegisterAfterSubmit ==
    /\ (ret.op = "train" /\ ret.kind = "AssertionError") =>
          /\ tasks[ret.pid] = ret.tasks_before
          /\ task_results[ret.pid] = ret.results_before
    /\ \A p \in Pids : \A t \in DOMAIN tasks[p] :
          LET pool == pools[tasks[p][t].process_pool]
          IN /\ Len(pool.submits) = 1 + Len(pool.batches)
             /\ pool.submits[1] = SubmitCall(<<"start_server">>, <<ServerConfig>>)
             /\ \A i \in DOMAIN pool.batches :
                   /\ pool.batches[i] # <<>>
                   /\ pool.submits[i + 1].kwargs_list = pool.batches[i]

\* C19 witness: an asynchronous train raised on the empty second batch,
\* after the server and the first batch were submitted, beside a registered
\* task of the process
C19_Witness ==
    /\ ret.op = "train" /\ ret.kind = "AssertionError" /\ ret.task_id # NoTaskId
    /\ tasks[ret.pid] # EmptyDict
    /\ \E m \in minted : /\ m.pid = ret.pid /\ m.task_id = ret.task_id
                         /\ Len(pools[m.run].submits) = 2
                         /\ Len(pools[m.run].batches) = 2

\* C18: in every process the keys of tasks are the keys of task_results.
C18_RegistryKeysEqual ==
    \A p \in Pids : DOMAIN tasks[p] = DOMAIN task_results[p]

\* the entry of task t in a registry of process p, if there is one
Entry(registry, p, t) ==
    IF t \in DOMAIN registry[p] THEN {registry[p][t]} ELSE {}

\* C16: with the calls of the threads of a process interleaved line by
\* line, a step of any call but the one for task t leaves the entries of t
\* in tasks and task_results as they are; a poll answered None has
\* accumulated the fragments merged for its own task and no other, and the
\* stats a task's last poll returns are those of a serial execution: built
\* from the one fragment of the task's own server, with the practitioner
\* ids and the worker_number train was given for it.
C16_NoInterference ==
    /\ [][\A p \in Pids, t \in TaskIds :
            Entry(frames', p, t) = Entry(frames, p, t) =>
                /\ Entry(tasks', p, t) = Entry(tasks, p, t)
                /\ Entry(task_results', p, t) = Entry(task_results, p, t)]_vars
    /\ []((Polled /\ ret.kind = "None") => ret.acc = LastWriterWins(ret.history.log))
    /\ []((Polled /\ ret.kind = "stats") =>
            /\ Len(ret.history.log) = 1
            /\ ret.value = BuildStats(ret.history.log[1],
                                      ret.history.practitioners.ids,
                                      ret.history.worker_number))

\* C16 witness: the stats of one task were returned while the call for
\* another task of the same process, whose server returned another
\* fragment, stands between its two pops
C16_Witness ==
    /\ Polled /\ ret.kind = "stats"
    /\ \E t \in DOMAIN frames[ret.pid] :
          /\ t # ret.task_id
          /\ InFlight(ret.pid, t, "get_training_result", "line 122")
          /\ task_results[ret.pid][t] # ret.acc

====
